---- MODULE Spec2Model ----
(***************************************************************************)
(* go-sauce: Parse (src/sauce.go) reads the 128-byte SAUCE trailer of a    *)
(* file and decodes it into a record; SAUCE.Dump renders the record; main  *)
(* (src/sauce-dump/main.go) calls Parse once per file and prints.          *)
(*                                                                         *)
(* Bytes are integers 0..255, byte strings are sequences of bytes.  A Go   *)
(* slice s[lo:hi] is Slice(s, lo, hi).  A nil *SAUCE is the empty          *)
(* sequence, a non-nil one a one-element sequence; a nil error is "nil".   *)
(***************************************************************************)
EXTENDS Integers, Sequences, FiniteSets, TLC

VARIABLES
    known,   \* the field values the input file's trailer was built from
    file,    \* the input file: its size and its last min(size, 128) bytes
    pc,      \* position of main / Parse
    f,       \* the os.File handle of Parse: "none", "open", "closed"
    ops,     \* history of the system calls Parse made, with their outcome
    b,       \* Parse's 128-byte buffer
    n,       \* bytes returned by f.Read
    r,       \* Parse's result record (<<>> is nil)
    err,     \* Parse's result error ("nil" is nil)
    out      \* the lines main printed for this file

vars == <<known, file, pc, f, ops, b, n, r, err, out>>

----------------------------------------------------------------------------
(* Bounds of the model *)

\* longest text placed in a title / author / group field
MaxTextLen == 2
\* largest number of body bytes in front of the trailer, beyond the first
MaxBody == 1

----------------------------------------------------------------------------
(* Program constants *)

TrailerLen == 128
MinSize == 129

DATA_TYPE_NONE == 0
DATA_TYPE_CHARACTER == 1
DATA_TYPE_BITMAP == 2
DATA_TYPE_VECTOR == 3
DATA_TYPE_AUDIO == 4
DATA_TYPE_BINARYTEXT == 5
DATA_TYPE_XBIN == 6
DATA_TYPE_ARCHIVE == 7
DATA_TYPE_EXECUTABLE == 8

\* 'S' 'A' 'U' 'C' 'E'
SAUCEID == <<83, 65, 85, 67, 69>>
SAUCEVersion == <<0, 0>>

SAUCEDataType ==
    (DATA_TYPE_NONE :> "None") @@ (DATA_TYPE_CHARACTER :> "Character") @@
    (DATA_TYPE_BITMAP :> "Bitmap") @@ (DATA_TYPE_VECTOR :> "Vector") @@
    (DATA_TYPE_AUDIO :> "Audio") @@ (DATA_TYPE_BINARYTEXT :> "BinaryText") @@
    (DATA_TYPE_XBIN :> "XBin") @@ (DATA_TYPE_ARCHIVE :> "Archive") @@
    (DATA_TYPE_EXECUTABLE :> "Executable")

\* data type -> names of the file types 0, 1, 2, ... (file type ft is entry ft+1)
SAUCEFileType ==
    (DATA_TYPE_CHARACTER :>
        <<"ASCII", "ANSi", "ANSiMation", "RIP script", "PCBoard", "Avatar",
          "HTML", "Source", "Tundradraw">>) @@
    (DATA_TYPE_BITMAP :>
        <<"GIF", "PCX", "LBM/FF", "TGA", "FLI", "FLC", "BMP", "GL", "DL",
          "WPG", "PNG", "JPG", "MPG", "AVI">>) @@
    (DATA_TYPE_VECTOR :> <<"DXF", "DWG", "WPG", "3DS">>) @@
    (DATA_TYPE_AUDIO :>
        <<"MOD", "669", "STM", "S3M", "MTM", "FAR", "ULT", "AMF", "DMF",
          "OKT", "ROL", "CMF", "MID", "SADT", "VOC", "WAV", "SMP8", "SMP8S",
          "SMP16", "SMP16S", "PATCH8", "PATCH16", "XM", "HSC", "IT">>) @@
    (DATA_TYPE_ARCHIVE :>
        <<"ZIP", "ARJ", "LZH", "ARC", "TAR", "ZOO", "RAR", "UC2", "PAK", "SQZ">>)

----------------------------------------------------------------------------
(* Byte strings *)

Slice(s, lo, hi) == SubSeq(s, lo + 1, hi)

Zeros(k) == [i \in 1..k |-> 0]

Spaces(k) == [i \in 1..k |-> 32]

\* binary.LittleEndian.Uint16
LittleEndianUint16(s) == s[1] + 256 * s[2]

\* binary.LittleEndian.Uint32.  A uint32 is the pair <<high, low>> of its
\* 16-bit words, its value high * 65536 + low: all 32 bits are kept, and
\* no number exceeds what the model checker's integers hold.
LittleEndianUint32(s) == <<s[3] + 256 * s[4], s[1] + 256 * s[2]>>

\* v div 2^24 of a uint32 v: its most significant byte
TopByte(v) == v[1] \div 256

\* strings.TrimSpace on a string of ASCII bytes: '\t' '\n' '\v' '\f' '\r' ' '
IsSpace(c) == c \in {9, 10, 11, 12, 13, 32}

RECURSIVE TrimLeft(_)
TrimLeft(s) ==
    IF s = <<>> THEN s
    ELSE IF IsSpace(Head(s)) THEN TrimLeft(Tail(s)) ELSE s

RECURSIVE TrimRight(_)
TrimRight(s) ==
    IF s = <<>> THEN s
    ELSE IF IsSpace(s[Len(s)]) THEN TrimRight(SubSeq(s, 1, Len(s) - 1)) ELSE s

TrimSpace(s) == TrimRight(TrimLeft(s))

----------------------------------------------------------------------------
(* strconv.Atoi: <<value, ok>>; the value is 0 when the string does not parse *)

IsDigit(c) == c >= 48 /\ c <= 57

RECURSIVE AtoiDigits(_, _)
AtoiDigits(s, acc) ==
    IF s = <<>> THEN <<acc, TRUE>>
    ELSE IF ~IsDigit(Head(s)) THEN <<0, FALSE>>
    ELSE AtoiDigits(Tail(s), acc * 10 + (Head(s) - 48))

Atoi(s) ==
    LET signed == s # <<>> /\ Head(s) \in {43, 45}
        digits == IF signed THEN Tail(s) ELSE s
    IN  IF digits = <<>> THEN <<0, FALSE>>
        ELSE LET res == AtoiDigits(digits, 0)
             IN  IF ~res[2] THEN <<0, FALSE>>
                 ELSE IF Head(s) = 45 THEN <<-res[1], TRUE>> ELSE res

----------------------------------------------------------------------------
(* time.Date(y, m, d, 0, 0, 0, 0, UTC), read back as <<year, month, day>>:  *)
(* out-of-range months and days are normalised                             *)

IsLeap(y) == y % 4 = 0 /\ (y % 100 # 0 \/ y % 400 = 0)

DaysIn(y, m) ==
    IF m = 2 THEN (IF IsLeap(y) THEN 29 ELSE 28)
    ELSE IF m \in {4, 6, 9, 11} THEN 30 ELSE 31

RECURSIVE NormDay(_, _, _)
NormDay(y, m, d) ==
    IF d < 1
    THEN LET py == IF m = 1 THEN y - 1 ELSE y
             pm == IF m = 1 THEN 12 ELSE m - 1
         IN  NormDay(py, pm, d + DaysIn(py, pm))
    ELSE IF d > DaysIn(y, m)
    THEN LET ny == IF m = 12 THEN y + 1 ELSE y
             nm == IF m = 12 THEN 1 ELSE m + 1
         IN  NormDay(ny, nm, d - DaysIn(y, m))
    ELSE <<y, m, d>>

TimeDate(y, m, d) ==
    LET m0 == m - 1
    IN  NormDay(y + (m0 \div 12), (m0 % 12) + 1, d)

\* variant: one component that does not parse zeroes the whole date
ParseDateArgsAllOrNothing(s) ==
    LET y == Atoi(Slice(s, 0, 4))
        m == Atoi(Slice(s, 4, 6))
        d == Atoi(Slice(s, 6, 8))
    IN  IF y[2] /\ m[2] /\ d[2] THEN <<y[1], m[1], d[1]>> ELSE <<0, 0, 0>>

\* the three arguments parseDate hands to time.Date
ParseDateArgs(s) ==
    <<Atoi(Slice(s, 0, 4))[1], Atoi(Slice(s, 4, 6))[1], Atoi(Slice(s, 6, 8))[1]>>

parseDate(s) ==
    LET a == ParseDateArgs(s) IN TimeDate(a[1], a[2], a[3])

----------------------------------------------------------------------------
(* The record *)

New ==
    [ID |-> SAUCEID, Version |-> SAUCEVersion,
     Title |-> <<>>, Author |-> <<>>, Group |-> <<>>,
     Date |-> <<1, 1, 1>>,
     FileSize |-> <<0, 0>>, DataType |-> 0, FileType |-> 0,
     TInfo |-> <<0, 0, 0, 0>>,
     Comments |-> 0, TFlags |-> 0, TInfos |-> Zeros(22)]

\* variant: only the first four bytes of the signature are compared
SigOKFirstFour(buf) == Slice(buf, 0, 4) = Slice(SAUCEID, 0, 4)

SigOK(buf) == Slice(buf, 0, 5) = SAUCEID

\* variant: the file size read from bytes 90..93, clear of the data type
FileSizeAt90(buf) == LittleEndianUint32(Slice(buf, 90, 94))

FileSizeOf(buf) == LittleEndianUint32(Slice(buf, 91, 95))

DataTypeOf(buf) == buf[94 + 1]

TInfoOf(buf) ==
    <<LittleEndianUint16(Slice(buf, 96, 98)),
      LittleEndianUint16(Slice(buf, 98, 100)),
      LittleEndianUint16(Slice(buf, 100, 102)),
      LittleEndianUint16(Slice(buf, 102, 104))>>

\* Parse, from r = New() to return r, nil
DecodeRecord(buf) ==
    [New EXCEPT
        !.Title = TrimSpace(Slice(buf, 7, 41)),
        !.Author = TrimSpace(Slice(buf, 41, 61)),
        !.Group = TrimSpace(Slice(buf, 61, 81)),
        !.Date = parseDate(Slice(buf, 82, 90)),
        !.FileSize = FileSizeOf(buf),
        !.DataType = DataTypeOf(buf),
        !.FileType = buf[95 + 1],
        !.TInfo = TInfoOf(buf)]

----------------------------------------------------------------------------
(* SAUCE.Dump: the lines printed, each a tuple that starts with its label *)

DataTypeString(rec) ==
    IF rec.DataType \in DOMAIN SAUCEDataType
    THEN SAUCEDataType[rec.DataType] ELSE ""

FileTypeString(rec) ==
    IF rec.DataType \in DOMAIN SAUCEFileType
       /\ rec.FileType + 1 \in DOMAIN SAUCEFileType[rec.DataType]
    THEN SAUCEFileType[rec.DataType][rec.FileType + 1] ELSE ""

FileTypeLine(rec) ==
    IF rec.DataType \in DOMAIN SAUCEFileType
    THEN <<"filetype", rec.FileType, FileTypeString(rec)>>
    ELSE <<"filetype", rec.FileType>>

\* variant: RIP script (file type 3) listed with the character file types
SizeLineRipInCharacters(rec) ==
    IF rec.DataType = 1
    THEN IF rec.FileType \in {0, 1, 2, 3, 4, 5, 8}
         THEN LET w == IF rec.TInfo[1] = 0 THEN 80 ELSE rec.TInfo[1]
                  h == rec.TInfo[2]
              IN  << <<"size", w, h, "characters">> >>
         ELSE <<>>
    ELSE IF rec.DataType = 2
    THEN << <<"size", rec.TInfo[1], rec.TInfo[2], "pixels">> >>
    ELSE <<>>

\* variant: the width default is applied before the switch, to every size line
SizeLineDefaultEverywhere(rec) ==
    LET w == IF rec.TInfo[1] = 0 THEN 80 ELSE rec.TInfo[1]
        h == rec.TInfo[2]
    IN  IF rec.DataType = 1
        THEN IF rec.FileType \in {0, 1, 2, 4, 5, 8}
             THEN << <<"size", w, h, "characters">> >>
             ELSE IF rec.FileType = 3
             THEN << <<"size", w, h, "pixels">> >>
             ELSE <<>>
        ELSE IF rec.DataType = 2
        THEN << <<"size", w, h, "pixels">> >>
        ELSE <<>>

\* the switch on r.DataType / r.FileType: no line, or the one "size" line
SizeLine(rec) ==
    IF rec.DataType = 1
    THEN IF rec.FileType \in {0, 1, 2, 4, 5, 8}
         THEN LET w == IF rec.TInfo[1] = 0 THEN 80 ELSE rec.TInfo[1]
                  h == rec.TInfo[2]
              IN  << <<"size", w, h, "characters">> >>
         ELSE IF rec.FileType = 3
         THEN << <<"size", rec.TInfo[1], rec.TInfo[2], "pixels">> >>
         ELSE <<>>
    ELSE IF rec.DataType = 2
    THEN << <<"size", rec.TInfo[1], rec.TInfo[2], "pixels">> >>
    ELSE <<>>

\* Dump has a pointer receiver: rec is the record as Dump leaves it
Dump(rec) ==
    [lines |->
        << <<"id", rec.ID>>,
           <<"version", rec.Version[1], rec.Version[2]>>,
           <<"title", rec.Title>>,
           <<"author", rec.Author>>,
           <<"group", rec.Group>>,
           <<"date", rec.Date>>,
           <<"filesize", rec.FileSize>>,
           <<"datatype", rec.DataType, DataTypeString(rec)>>,
           FileTypeLine(rec),
           <<"tinfo", rec.TInfo[1], rec.TInfo[2], rec.TInfo[3], rec.TInfo[4]>> >>
        \o SizeLine(rec),
     rec |-> rec]

----------------------------------------------------------------------------
(* Input files: a trailer laid out from known field values *)

RECURSIVE Digits(_, _)
Digits(v, w) ==
    IF w = 0 THEN <<>> ELSE Append(Digits(v \div 10, w - 1), 48 + (v % 10))

FormatDate(y, m, d) == Digits(y, 4) \o Digits(m, 2) \o Digits(d, 2)

PutUint16(v) == <<v % 256, (v \div 256) % 256>>

PutUint32(v) == <<v[2] % 256, v[2] \div 256, v[1] % 256, v[1] \div 256>>

\* Bytes 91..94 hold the file size and byte 94 the data type: the field
\* written last ("order") decides byte 94.
Build(k) ==
    LET fs == PutUint32(k.fileSize)
        b94 == IF k.order = "dataTypeLast" THEN k.dataType ELSE fs[4]
    IN  k.sig \o k.ver
        \o k.title \o Spaces(34 - Len(k.title))
        \o k.author \o Spaces(20 - Len(k.author))
        \o k.group \o Spaces(20 - Len(k.group))
        \o <<32>>
        \o k.date
        \o <<0>>
        \o <<fs[1], fs[2], fs[3], b94, k.fileType>>
        \o PutUint16(k.tinfo[1]) \o PutUint16(k.tinfo[2])
        \o PutUint16(k.tinfo[3]) \o PutUint16(k.tinfo[4])
        \o Zeros(24)

\* the file on disk: its size and its last min(size, 128) bytes
FileOf(k) ==
    LET t == Build(k)
    IN  [size |-> k.size,
         tail |-> IF k.size >= TrailerLen THEN t
                  ELSE SubSeq(t, TrailerLen - k.size + 1, TrailerLen)]

Base ==
    [size |-> MinSize, sig |-> SAUCEID, ver |-> <<48, 48>>,
     title |-> <<65>>, author |-> <<66>>, group |-> <<67>>,
     date |-> FormatDate(1970, 1, 1), ymd |-> <<1970, 1, 1>>,
     fileSize |-> <<0, 0>>, dataType |-> 0, fileType |-> 0,
     tinfo |-> <<0, 0, 0, 0>>, order |-> "dataTypeLast"]

Sizes == {0, 1, TrailerLen - 1, TrailerLen} \cup (MinSize .. MinSize + MaxBody)

\* "SAUCE", zeros, "SAUCF", "sAUCE", SUB "SAUC", "SAUC" NUL
Sigs ==
    {SAUCEID, Zeros(5), <<83, 65, 85, 67, 70>>, <<115, 65, 85, 67, 69>>,
     <<26, 83, 65, 85, 67>>, <<83, 65, 85, 67, 0>>}

\* "00", 0 0, "01", 1 0
Vers == {<<48, 48>>, <<0, 0>>, <<48, 49>>, <<1, 0>>}

\* NUL, tab, space, 'A'
Alphabet == {0, 9, 32, 65}

Texts == UNION {[1..k -> Alphabet] : k \in 0..MaxTextLen}

Years == {0, 1900, 1970, 2000, 2023, 2024, 9999}

\* "    ", "19x0", "+123", "-001", "197 ", NUL NUL NUL NUL
BadYears ==
    {<<32, 32, 32, 32>>, <<49, 57, 120, 48>>, <<43, 49, 50, 51>>,
     <<45, 48, 48, 49>>, <<49, 57, 55, 32>>, Zeros(4)}

\* "  ", " 1", "1 ", "+1", "-1", "x1", "0x", "+", "-"
BadPairs ==
    {<<32, 32>>, <<32, 49>>, <<49, 32>>, <<43, 49>>, <<45, 49>>,
     <<120, 49>>, <<48, 120>>, <<43, 43>>, <<45, 32>>}

Days == {0, 1, 28, 29, 30, 31, 32, 99}

YearChoices ==
    {[s |-> Digits(y, 4), v |-> <<y>>] : y \in Years}
    \cup {[s |-> x, v |-> <<>>] : x \in BadYears}

MonthChoices ==
    {[s |-> Digits(m, 2), v |-> <<m>>] : m \in 0..13}
    \cup {[s |-> x, v |-> <<>>] : x \in BadPairs}

DayChoices ==
    {[s |-> Digits(d, 2), v |-> <<d>>] : d \in Days}
    \cup {[s |-> x, v |-> <<>>] : x \in BadPairs}

IsCalendarDate(y, m, d) == m \in 1..12 /\ d >= 1 /\ d <= DaysIn(y, m)

\* a date field, and the calendar date it was written from (<<>>: from none)
DateChoices ==
    {[str |-> yc.s \o mc.s \o dc.s,
      ymd |-> IF yc.v # <<>> /\ mc.v # <<>> /\ dc.v # <<>>
                 /\ IsCalendarDate(yc.v[1], mc.v[1], dc.v[1])
              THEN <<yc.v[1], mc.v[1], dc.v[1]>> ELSE <<>>] :
        yc \in YearChoices, mc \in MonthChoices, dc \in DayChoices}

\* 0, 1, 2^16, 2^24 - 1, 2^24, 2^25 + 5, 2^31, 2^32 - 1
FileSizes ==
    {<<0, 0>>, <<0, 1>>, <<1, 0>>, <<255, 65535>>, <<256, 0>>, <<512, 5>>,
     <<32768, 0>>, <<65535, 65535>>}

DataTypes == {0, 1, 2, 3, 8, 9, 255}

FileTypes == {0, 1, 2, 3, 4, 5, 6, 8, 9, 255}

TInfos ==
    {<<0, 0, 0, 0>>, <<80, 25, 0, 0>>, <<0, 25, 1, 2>>, <<320, 200, 1, 2>>,
     <<640, 0, 0, 0>>, <<65535, 256, 255, 65535>>}

KnownIO ==
    {[Base EXCEPT !.size = s, !.sig = g, !.ver = v] :
        s \in Sizes, g \in Sigs, v \in Vers}

KnownText ==
    {[Base EXCEPT !.title = t] : t \in Texts}
    \cup {[Base EXCEPT !.author = t] : t \in Texts}
    \cup {[Base EXCEPT !.group = t] : t \in Texts}

KnownDate ==
    {[Base EXCEPT !.date = c.str, !.ymd = c.ymd] : c \in DateChoices}

KnownNum ==
    {[Base EXCEPT !.fileSize = fs, !.dataType = dt, !.fileType = ft,
                  !.tinfo = ti, !.order = o] :
        fs \in FileSizes, dt \in DataTypes, ft \in FileTypes, ti \in TInfos,
        o \in {"dataTypeLast", "fileSizeLast"}}

Known == KnownIO \cup KnownText \cup KnownDate \cup KnownNum

----------------------------------------------------------------------------
(* main and Parse *)

Init ==
    /\ known \in Known
    /\ file = FileOf(known)
    /\ pc = "start"
    /\ f = "none"
    /\ ops = <<>>
    /\ b = <<>>
    /\ n = 0
    /\ r = <<>>
    /\ err = "nil"
    /\ out = <<>>

\* f, err = os.Open(filename); if err != nil { return }; defer f.Close()
Open ==
    /\ pc = "start"
    /\ \/ /\ f' = "open"
          /\ ops' = Append(ops, "open:ok")
          /\ pc' = "opened"
          /\ UNCHANGED err
       \/ /\ ops' = Append(ops, "open:err")
          /\ err' = "open error"
          /\ pc' = "done"
          /\ UNCHANGED f
    /\ UNCHANGED <<known, file, b, n, r, out>>

\* variant: a file of exactly the trailer's length passes the size check
TooShortBelowTrailer(size) == size < TrailerLen

TooShort(size) == size < MinSize

\* i, err = f.Stat(); if err != nil { return }; if i.Size() < 129 { ... }
Stat ==
    /\ pc = "opened"
    /\ \/ /\ ops' = Append(ops, "stat:ok")
          /\ IF TooShort(file.size)
             THEN err' = "File too short" /\ pc' = "ret"
             ELSE pc' = "sized" /\ UNCHANGED err
       \/ /\ ops' = Append(ops, "stat:err")
          /\ err' = "stat error"
          /\ pc' = "ret"
    /\ UNCHANGED <<known, file, f, b, n, r, out>>

\* _, err = f.Seek(-128, 2); if err != nil { return }
Seek ==
    /\ pc = "sized"
    /\ \/ /\ ops' = Append(ops, "seek:ok")
          /\ pc' = "seeked"
          /\ UNCHANGED err
       \/ /\ ops' = Append(ops, "seek:err")
          /\ err' = "seek error"
          /\ pc' = "ret"
    /\ UNCHANGED <<known, file, f, b, n, r, out>>

\* byte counts a read that comes up short may return
ShortCounts == {1, TrailerLen - 1}

\* b := make([]byte, 128); n, err = f.Read(b); if err != nil { return };
\* if n != 128 { return nil, errors.New("Short read") }
Read ==
    /\ pc = "seeked"
    /\ \/ /\ ops' = Append(ops, "read:ok")
          /\ b' = file.tail
          /\ n' = TrailerLen
          /\ pc' = "read"
          /\ UNCHANGED err
       \/ /\ ops' = Append(ops, "read:err")
          /\ b' = Zeros(TrailerLen)
          /\ n' = 0
          /\ err' = "read error"
          /\ pc' = "ret"
       \/ \E k \in ShortCounts :
          /\ ops' = Append(ops, "read:short")
          /\ b' = SubSeq(file.tail, 1, k) \o Zeros(TrailerLen - k)
          /\ n' = k
          /\ err' = "Short read"
          /\ pc' = "ret"
    /\ UNCHANGED <<known, file, f, r, out>>

\* if !bytes.Equal(b[0:5], SAUCEID[:]) { return nil, errors.New("No SAUCE record") }
\* r = New(); ...; return r, nil
Decode ==
    /\ pc = "read"
    /\ IF SigOK(b)
       THEN r' = <<DecodeRecord(b)>> /\ err' = "nil"
       ELSE r' = <<>> /\ err' = "No SAUCE record"
    /\ pc' = "ret"
    /\ UNCHANGED <<known, file, f, ops, b, n, out>>

\* variant: the handle is left as it is
NotClosed(h) == h

\* what the deferred f.Close() leaves of the handle
Closed(h) == "closed"

\* the deferred f.Close(), run as Parse returns
Close ==
    /\ pc = "ret"
    /\ f' = Closed(f)
    /\ ops' = Append(ops, "close")
    /\ pc' = "done"
    /\ UNCHANGED <<known, file, b, n, r, err, out>>

\* main's loop body after Parse returned
Main ==
    /\ pc = "done"
    /\ IF err # "nil"
       THEN out' = << <<"error", err>> >> /\ UNCHANGED r
       ELSE IF r = <<>>
       THEN out' = << <<"no SAUCE record">> >> /\ UNCHANGED r
       ELSE LET d == Dump(r[1])
            IN  out' = << <<"filename">> >> \o d.lines /\ r' = <<d.rec>>
    /\ pc' = "printed"
    /\ UNCHANGED <<known, file, f, ops, b, n, err>>

Next == Open \/ Stat \/ Seek \/ Read \/ Decode \/ Close \/ Main

Spec == Init /\ [][Next]_vars

----------------------------------------------------------------------------
(* Dump over every (data type, file type) pair: main, from the state in    *)
(* which Parse has just returned the record of such a file                 *)

Byte == 0..255

DumpTInfos == {<<0, 0, 0, 0>>, <<320, 200, 1, 2>>}

InitDump ==
    /\ \E dt \in Byte, ft \in Byte, ti \in DumpTInfos :
          known = [Base EXCEPT !.dataType = dt, !.fileType = ft, !.tinfo = ti]
    /\ file = FileOf(known)
    /\ pc = "done"
    /\ f = "closed"
    /\ ops = <<"open:ok", "stat:ok", "seek:ok", "read:ok", "close">>
    /\ b = file.tail
    /\ n = TrailerLen
    /\ r = <<DecodeRecord(file.tail)>>
    /\ err = "nil"
    /\ out = <<>>

NextDump == Main

SpecDump == InitDump /\ [][NextDump]_vars

----------------------------------------------------------------------------
(* Properties *)

Has(op) == \E i \in DOMAIN ops : ops[i] = op

Count(S) == Cardinality({i \in DOMAIN ops : ops[i] \in S})

\* Parse has returned
Returned == pc \in {"done", "printed"}

\* no system call of Parse failed or came up short
IOFine ==
    \A i \in DOMAIN ops :
        ops[i] \notin {"open:err", "stat:err", "seek:err", "read:err", "read:short"}

\* Parse ran to its end on a file that holds a whole trailer and a body
Decoded == Returned /\ IOFine /\ file.size >= 129

SizeLinesOf(o) == SelectSeq(o, LAMBDA l : l[1] = "size")

LinesOf(o, label) == SelectSeq(o, LAMBDA l : l[1] = label)


\* the unit of the size line main printed: "none" when it printed no size line
SizeUnit == IF SizeLinesOf(out) = <<>> THEN "none" ELSE SizeLinesOf(out)[1][4]

----------------------------------------------------------------------------
\* C1: a file of at least 129 bytes whose last 128 bytes do not begin with
\* "SAUCE" makes Parse return no record and no error, and main takes its
\* "no SAUCE record" branch.
C1_AbsentIsNoError ==
    (Decoded /\ ~SigOK(file.tail)) =>
        /\ r = <<>>
        /\ err = "nil"
        /\ pc = "printed" => out = << <<"no SAUCE record">> >>

----------------------------------------------------------------------------
\* C2: Parse fails with "File too short" for every file it could open and
\* stat whose size is below 129, never for a size of 129 or more, and a
\* 129-byte file whose last 128 bytes start with "SAUCE" decodes to a record.
C2_TooShortBelow129 ==
    Returned =>
        /\ (file.size < 129 /\ Has("stat:ok")) => (err = "File too short" /\ r = <<>>)
        /\ file.size >= 129 => err # "File too short"
        /\ (file.size = 129 /\ IOFine /\ SigOK(file.tail)) => (r # <<>> /\ err = "nil")

C2_Witness ==
    /\ pc = "done"
    /\ file.size = 129
    /\ SigOK(file.tail)
    /\ r # <<>>

----------------------------------------------------------------------------
\* a text with no white space at either end: trimming leaves it as it is
Plain(t) == t = <<>> \/ (~IsSpace(t[1]) /\ ~IsSpace(t[Len(t)]))

\* C3: a trailer built from known field values decodes to a record with the
\* same title, author, group (texts without outer white space), date (a
\* calendar date), file size and type info, whatever the data type.
C3_RoundTrip ==
    (Decoded /\ SigOK(file.tail)) =>
        /\ r # <<>>
        /\ Plain(known.title) => r[1].Title = known.title
        /\ Plain(known.author) => r[1].Author = known.author
        /\ Plain(known.group) => r[1].Group = known.group
        /\ known.ymd # <<>> => r[1].Date = known.ymd
        /\ r[1].FileSize = known.fileSize
        /\ r[1].TInfo = known.tinfo

----------------------------------------------------------------------------
\* C4: a record is returned only with a nil error and only for a trailer
\* that starts with "SAUCE", and it carries that ID; with any error the
\* record is nil.
C4_NoPartialRecord ==
    /\ r # <<>> =>
        /\ err = "nil"
        /\ Slice(file.tail, 0, 5) = <<83, 65, 85, 67, 69>>
        /\ r[1].ID = <<83, 65, 85, 67, 69>>
    /\ err # "nil" => r = <<>>

C4_Witness ==
    /\ pc = "done"
    /\ r # <<>>
    /\ err = "nil"
    /\ known.sig = SAUCEID

----------------------------------------------------------------------------
\* C5: the record's version is the two bytes at trailer offsets 5 and 6.
C5_VersionStored ==
    r # <<>> => r[1].Version = <<file.tail[5 + 1], file.tail[6 + 1]>>

----------------------------------------------------------------------------
\* C6: the size line is in characters exactly for data type 1 with file
\* type 0, 1, 2, 4, 5 or 8, in pixels exactly for data type 1 with file
\* type 3 and for data type 2 with any file type, and absent otherwise;
\* there is never more than one size line.
C6_SizeLineClassified ==
    (pc = "printed" /\ r # <<>>) =>
        LET dt == file.tail[94 + 1]
            ft == file.tail[95 + 1]
        IN  /\ Len(SizeLinesOf(out)) <= 1
            /\ SizeUnit = "characters" <=> (dt = 1 /\ ft \in {0, 1, 2, 4, 5, 8})
            /\ SizeUnit = "pixels" <=> ((dt = 1 /\ ft = 3) \/ dt = 2)
            /\ SizeUnit = "none" <=>
                  ~((dt = 1 /\ ft \in {0, 1, 2, 3, 4, 5, 8}) \/ dt = 2)

\* a bitmap with a file type that has no name gets a size line in pixels
C6_Witness ==
    /\ pc = "printed"
    /\ r # <<>>
    /\ r[1].DataType = 2
    /\ r[1].FileType = 200
    /\ SizeUnit = "pixels"

----------------------------------------------------------------------------
\* C7: in a size line in characters the width is type info 0, or 80 when
\* that is 0, and the height is type info 1 as it is; a size line in pixels
\* shows both as they are; the record and the tinfo line keep the raw values.
C7_ZeroWidthDefault ==
    (pc = "printed" /\ r # <<>>) =>
        LET ti == known.tinfo
        IN  /\ SizeUnit = "characters" =>
                 SizeLinesOf(out)[1] =
                    <<"size", IF ti[1] = 0 THEN 80 ELSE ti[1], ti[2], "characters">>
            /\ SizeUnit = "pixels" =>
                 SizeLinesOf(out)[1] = <<"size", ti[1], ti[2], "pixels">>
            /\ r[1].TInfo = ti
            /\ LinesOf(out, "tinfo") = << <<"tinfo", ti[1], ti[2], ti[3], ti[4]>> >>

C7_Witness ==
    /\ pc = "printed"
    /\ r # <<>>
    /\ r[1].DataType = 1
    /\ r[1].FileType = 8
    /\ r[1].TInfo = <<0, 0, 0, 0>>
    /\ SizeLinesOf(out) = << <<"size", 80, 0, "characters">> >>

----------------------------------------------------------------------------
\* a decimal integer: an optional sign, then one or more digits
IsDecimal(s) ==
    LET d == IF s # <<>> /\ s[1] \in {43, 45} THEN Tail(s) ELSE s
    IN  d # <<>> /\ \A i \in DOMAIN d : d[i] \in 48..57

RECURSIVE DigitsValue(_)
DigitsValue(d) ==
    IF d = <<>> THEN 0
    ELSE 10 * DigitsValue(SubSeq(d, 1, Len(d) - 1)) + (d[Len(d)] - 48)

\* the value of a date component: its decimal value, 0 when it has none
ComponentValue(s) ==
    IF ~IsDecimal(s) THEN 0
    ELSE IF s[1] = 45 THEN 0 - DigitsValue(Tail(s))
    ELSE IF s[1] = 43 THEN DigitsValue(Tail(s))
    ELSE DigitsValue(s)

DateField == SubSeq(file.tail, 83, 90)

\* C8: each of the year, month and day of the date field that is not a
\* decimal integer counts as 0 and the others keep their values; whatever
\* the date field holds, Parse returns a record and no error.
C8_DateLeniency ==
    (Decoded /\ SigOK(file.tail)) =>
        LET y == ComponentValue(SubSeq(DateField, 1, 4))
            m == ComponentValue(SubSeq(DateField, 5, 6))
            d == ComponentValue(SubSeq(DateField, 7, 8))
        IN  /\ r # <<>>
            /\ err = "nil"
            /\ ParseDateArgs(DateField) = <<y, m, d>>
            /\ r[1].Date = TimeDate(y, m, d)

\* year and day are numbers, the month is not
C8_Witness ==
    /\ pc = "done"
    /\ r # <<>>
    /\ IsDecimal(SubSeq(DateField, 1, 4))
    /\ ~IsDecimal(SubSeq(DateField, 5, 6))
    /\ IsDecimal(SubSeq(DateField, 7, 8))
    /\ ParseDateArgs(DateField) = <<2023, 0, 28>>

----------------------------------------------------------------------------
\* the positions in the history of the calls in S
At(S) == {i \in DOMAIN ops : ops[i] \in S}

\* C9: one Parse call opens at most one handle; a handle that was opened is
\* held until Parse returns and closed exactly once by then; at most one
\* seek, after the size check passed, and at most one read, after the seek
\* succeeded; a failed open holds no handle and closes nothing.
C9_HandleLifecycle ==
    /\ Count({"open:ok", "open:err"}) <= 1
    /\ Count({"seek:ok", "seek:err"}) <= 1
    /\ Count({"read:ok", "read:err", "read:short"}) <= 1
    /\ Count({"close"}) <= 1
    /\ \A i \in At({"seek:ok", "seek:err"}) :
          /\ file.size >= 129
          /\ \E j \in At({"stat:ok"}) : j < i
    /\ \A i \in At({"read:ok", "read:err", "read:short"}) :
          \E j \in At({"seek:ok"}) : j < i
    /\ \A i \in At({"close"}) : \E j \in At({"open:ok"}) : j < i
    /\ \A i \in At({"close"}) : i = Len(ops)
    /\ f = "open" <=> (Has("open:ok") /\ ~Has("close"))
    /\ Has("open:err") => (f = "none" /\ ~Has("close"))
    /\ Returned => f # "open"
    /\ (Returned /\ Has("open:ok")) => (f = "closed" /\ Count({"close"}) = 1)

\* the handle is closed after a short read
C9_Witness ==
    /\ pc = "done"
    /\ ops = <<"open:ok", "stat:ok", "seek:ok", "read:short", "close">>
    /\ f = "closed"

----------------------------------------------------------------------------
\* C10: the record's data type is trailer byte 94, which is also the most
\* significant byte of its file size, read from bytes 91..94: data type =
\* file size div 2^24, so data type 1 never comes with a file size below 2^24.
C10_DataTypeIsTopByte ==
    r # <<>> =>
        /\ r[1].DataType = file.tail[94 + 1]
        /\ r[1].FileSize =
              <<file.tail[93 + 1] + 256 * file.tail[94 + 1],
                file.tail[91 + 1] + 256 * file.tail[92 + 1]>>
        /\ r[1].DataType = TopByte(r[1].FileSize)
        /\ ~(r[1].DataType = 1 /\ r[1].FileSize[1] < 256)

\* a trailer built for file size 1 and data type 1 decodes to file size 2^24 + 1
C10_Witness ==
    /\ pc = "done"
    /\ r # <<>>
    /\ known.fileSize = <<0, 1>>
    /\ known.dataType = 1
    /\ r[1].DataType = 1
    /\ r[1].FileSize = <<256, 1>>

====
